---- MODULE Spec2Model ----
(***************************************************************************)
(* The per-frame update loop of the driving simulation in src/main.js:     *)
(* key events write the key map, animate(now) clamps the elapsed time to   *)
(* dt and calls update(dt), which advances speed, rpm, steering, yaw, the  *)
(* car position, the ten traffic cars, the turn signals, the blink timer   *)
(* and the HUD.                                                            *)
(*                                                                         *)
(* Numbers are fixed point (the source computes in IEEE doubles):          *)
(*   time      1/SEC s          (SEC = 600: 0.05 s = 30, 1/60 s = 10)      *)
(*   speed     1/KMH km/h       (KMH = 30; rpm is in 1/KMH rpm)            *)
(*   length    1/METRE m        (METRE = 3.6 * KMH * SEC, so that          *)
(*                               (speed / 3.6) * dt is speed * dt exactly) *)
(*   steering  1/MILLI          (steeringInput, steeringStrength, forward) *)
(*   angle     1/MICRO rad      (car.rotation.y, yawDelta, steeringAngle)  *)
(* Every quotient that is not exact is truncated toward zero (TDiv).       *)
(***************************************************************************)
EXTENDS Integers, Sequences, FiniteSets, TLC

\* ------------------------------------------------------------------ units
SEC == 6 * 100
KMH == 3 * 10
METRE == (36 * KMH * SEC) \div 10
MILLI == 10 * 100
MICRO == MILLI * MILLI

TDiv(a, b) == IF a >= 0 THEN a \div b ELSE -((-a) \div b)
Min(a, b) == IF a < b THEN a ELSE b
Max(a, b) == IF a > b THEN a ELSE b
Abs(a) == IF a < 0 THEN -a ELSE a

\* ------------------------------------------------- constants of the source
laneCount == 4
roadWidth == 12
poolSize == 10
accel == 120
brake == 200
dragPct == 35
maxSpeed == 260
rpmIdle == 900
rpmPerKmh == 40
rpmThrottle == 500
rpmMax == 7500
rpmInit == 800
steerRate == 3
steerDecayPct == 90
wheelPct == 70
lerpFrom == 1800
lerpTo == 400
lerpSpeed == 200
respawnMargin == 50
respawnAhead == 150
respawnSpread == 150
spawnAhead == 50
spawnSpread == 200
trafficMinSpeed == 60
trafficSpeedSpread == 80
blinkPeriod == 300
maxDt == 30

\* ------------------------------------------------------------ Math.random
\* Math.random() is the engine's pseudo-random generator: a hidden state
\* that every call advances, and a result in [0, 1).  The state is rng, a
\* full-period linear congruential generator over 0 .. RandMod-1; a draw
\* returns rng / RandMod.  The seed is chosen freely in Init.
RandMod == 16
NumSeeds == 2

nextRand(g) == (5 * g + 3) % RandMod

\* floor(r * n) for the draw g / RandMod
randFloor(g, n) == (g * n) \div RandMod

\* r * n in the model's units, n given in units
randScale(g, n) == (g * n) \div RandMod

\* ------------------------------------------------------------ trigonometry
\* new THREE.Vector3(0, 0, -1).applyQuaternion(car.quaternion): the rotation
\* of (0, 0, -1) about Y by car.rotation.y is (-sin y, 0, -cos y).
PI == 3141593

\* the angle reduced to (-PI, PI], in 1/MICRO rad
wrapAngle(y) ==
    LET m == y % (2 * PI)
    IN IF m > PI THEN m - 2 * PI ELSE m

\* sin and cos of an angle in [-PI/2, PI/2] given in 1/MILLI rad, result in
\* 1/MILLI: x - x^3/6 + x^5/120 - x^7/5040 and 1 - x^2/2 + x^4/24 - x^6/720
sinPoly(x) ==
    LET x2 == TDiv(x * x, MILLI)
        x3 == TDiv(x2 * x, MILLI)
        x5 == TDiv(x3 * x2, MILLI)
        x7 == TDiv(x5 * x2, MILLI)
    IN x - TDiv(x3, 6) + TDiv(x5, 120) - TDiv(x7, 5040)

cosPoly(x) ==
    LET x2 == TDiv(x * x, MILLI)
        x4 == TDiv(x2 * x2, MILLI)
        x6 == TDiv(x4 * x2, MILLI)
    IN MILLI - TDiv(x2, 2) + TDiv(x4, 24) - TDiv(x6, 720)

\* sin and cos of an angle in 1/MICRO rad, result in 1/MILLI
sinM(y) ==
    LET w == TDiv(wrapAngle(y), MILLI)
        p == TDiv(PI, MILLI)
        r == IF w > p \div 2 THEN p - w
             ELSE IF w < -(p \div 2) THEN -p - w
             ELSE w
    IN Max(-MILLI, Min(MILLI, sinPoly(r)))

cosM(y) ==
    LET w == TDiv(wrapAngle(y), MILLI)
        p == TDiv(PI, MILLI)
    IN IF Abs(w) <= p \div 2
       THEN Max(-MILLI, Min(MILLI, cosPoly(w)))
       ELSE -Max(-MILLI, Min(MILLI, cosPoly(p - Abs(w))))

forward(rotY) == [x |-> -sinM(rotY), z |-> -cosM(rotY)]

\* THREE.MathUtils.lerp(x, y, t) = (1 - t) * x + t * y, t in 1/MILLI
lerp(x, y, t) == TDiv((MILLI - t) * x, MILLI) + TDiv(t * y, MILLI)

\* ------------------------------------------------------------------ state
KeyNames == {"w", "s", "a", "d", "z", "x"}

VARIABLES
    keys,           \* keys[name]: the key map (a missing entry reads as false)
    speed,          \* km/h
    rpm,
    gear,
    steeringInput,  \* -1 .. 1
    steeringAngle,  \* radians
    leftSignal, rightSignal, signalBlink, signalTimer,
    carPos,         \* car.position: [x, z]
    carRotY,        \* car.rotation.y
    traffic,        \* the traffic array: position x, z and userData.speed
    rng,            \* the state of Math.random
    scene,          \* what update writes for the renderer and the HUD
    signalText,     \* signalEl.textContent
    ticks,          \* calls of update so far
    events,         \* key events so far
    frame,          \* the last call of update: its dt, the keys it read, ...
    pre,            \* the simulation state when the last update began
    twin            \* a second run of the program, for comparing two runs

vars == <<keys, speed, rpm, gear, steeringInput, steeringAngle, leftSignal,
          rightSignal, signalBlink, signalTimer, carPos, carRotY, traffic,
          rng, scene, signalText, ticks, events, frame, pre, twin>>

\* e.key.toLowerCase()
toLowerCase(c) ==
    CASE c = "W" -> "w" [] c = "S" -> "s" [] c = "A" -> "a"
      [] c = "D" -> "d" [] c = "Z" -> "z" [] c = "X" -> "x"
      [] OTHER -> c

\* ------------------------------------------------------ spawnTrafficCar
laneX(laneIndex) ==
    TDiv((2 * laneIndex - (laneCount - 1)) * roadWidth * METRE, 2 * laneCount)

\* one call of spawnTrafficCar: three draws (lane, z, speed), one push
spawnTrafficCar(st) ==
    LET g1 == nextRand(st.rng)
        g2 == nextRand(g1)
        g3 == nextRand(g2)
        mesh == [x |-> laneX(randFloor(g1, laneCount)),
                 z |-> -randScale(g2, spawnSpread * METRE) - spawnAhead * METRE,
                 speed |-> trafficMinSpeed * KMH
                           + randScale(g3, trafficSpeedSpread * KMH)]
    IN [traffic |-> Append(st.traffic, mesh), rng |-> g3]

\* for (let i = 0; i < 10; i++) spawnTrafficCar();
RECURSIVE spawnAll(_, _)
spawnAll(i, st) ==
    IF i >= poolSize THEN st ELSE spawnAll(i + 1, spawnTrafficCar(st))

\* ------------------------------------------------------------------ update
throttleBrake(spd, k, dt) ==
    LET s1 == IF k["w"] THEN spd + TDiv(accel * KMH * dt, SEC) ELSE spd
    IN IF k["s"] THEN s1 - TDiv(brake * KMH * dt, SEC) ELSE s1

\* mutant: the drag line forgotten
applyDrag_none(spd, dt) == spd

\* mutant: drag taken per frame of 1/60 s instead of per elapsed dt
applyDrag_perFrame(spd, dt) == spd - TDiv(spd * dragPct * 10, 100 * SEC)

applyDrag(spd, dt) == spd - TDiv(spd * dragPct * dt, 100 * SEC)

\* mutant: the lower clamp forgotten
clampSpeed_noFloor(spd) == Min(maxSpeed * KMH, spd)

clampSpeed(spd) == Max(0, Min(maxSpeed * KMH, spd))

newSpeed(spd, k, dt) == clampSpeed(applyDrag(throttleBrake(spd, k, dt), dt))

\* mutant: the Math.min(7500, rpm) line forgotten
newRpm_noCap(spd, k) ==
    rpmIdle * KMH + spd * rpmPerKmh + (IF k["w"] THEN rpmThrottle * KMH ELSE 0)

newRpm(spd, k) ==
    Min(rpmMax * KMH,
        rpmIdle * KMH + spd * rpmPerKmh + (IF k["w"] THEN rpmThrottle * KMH ELSE 0))

\* mutant: the decay scaled by the frame time (0.9 per 1/60 s)
newSteeringInput_dtDecay(si, k, dt) ==
    LET i1 == IF k["a"] THEN si + TDiv(steerRate * MILLI * dt, SEC) ELSE si
        i2 == IF k["d"] THEN i1 - TDiv(steerRate * MILLI * dt, SEC) ELSE i1
        i3 == Max(-MILLI, Min(MILLI, i2))
    IN TDiv(i3 * (SEC - 6 * (((100 - steerDecayPct) * dt) \div 10)), SEC)

\* mutant: the decay applied before the keys and the clamp
newSteeringInput_decayFirst(si, k, dt) ==
    LET i0 == TDiv(si * steerDecayPct, 100)
        i1 == IF k["a"] THEN i0 + TDiv(steerRate * MILLI * dt, SEC) ELSE i0
        i2 == IF k["d"] THEN i1 - TDiv(steerRate * MILLI * dt, SEC) ELSE i1
    IN Max(-MILLI, Min(MILLI, i2))

newSteeringInput(si, k, dt) ==
    LET i1 == IF k["a"] THEN si + TDiv(steerRate * MILLI * dt, SEC) ELSE si
        i2 == IF k["d"] THEN i1 - TDiv(steerRate * MILLI * dt, SEC) ELSE i1
        i3 == Max(-MILLI, Min(MILLI, i2))
    IN TDiv(i3 * steerDecayPct, 100)

steeringStrength(spd) == lerp(lerpFrom, lerpTo, TDiv(spd * MILLI, lerpSpeed * KMH))

yawDelta(si, spd, dt) == TDiv(si * steeringStrength(spd) * dt, SEC)

\* (speed / 3.6) * dt, km/h -> m/s
\* and METRE is chosen so that this is spd * dt length units, exactly
distance(spd, dt) == TDiv(spd * dt * ((10 * METRE) \div (KMH * SEC)), 36)

newSteeringAngle(si) == TDiv(si * MILLI * wheelPct, 100)

\* car.position.addScaledVector(forward, distance), forward taken from the
\* rotation the car has before this frame's yawDelta is added
carMove(pos, rotY, spd, dt) ==
    LET f == forward(rotY)
        d == distance(spd, dt)
    IN [x |-> pos.x + TDiv(f.x * d, MILLI), z |-> pos.z + TDiv(f.z * d, MILLI)]

\* relSpeed, dz and t.position.z += dz
moveAgent(t, spd, dt) ==
    [t EXCEPT !.z = t.z + TDiv((t.speed - spd) * dt * ((10 * METRE) \div (KMH * SEC)), 36)]

\* mutant: the trailing margin doubled
needsRespawn_late(t, carZ) == t.z > carZ + 2 * respawnMargin * METRE

needsRespawn(t, carZ) == t.z > carZ + respawnMargin * METRE

\* mutant: the respawn distance added to carZ instead of subtracted
respawnAgent_behind(t, carZ, g) ==
    LET g1 == nextRand(g)
        g2 == nextRand(g1)
        g3 == nextRand(g2)
    IN [mesh |-> [x |-> laneX(randFloor(g1, laneCount)),
                  z |-> carZ + respawnAhead * METRE
                        + randScale(g2, respawnSpread * METRE),
                  speed |-> trafficMinSpeed * KMH
                            + randScale(g3, trafficSpeedSpread * KMH)],
        rng |-> g3]

\* the respawn branch: three draws (lane, z, speed)
respawnAgent(t, carZ, g) ==
    LET g1 == nextRand(g)
        g2 == nextRand(g1)
        g3 == nextRand(g2)
    IN [mesh |-> [x |-> laneX(randFloor(g1, laneCount)),
                  z |-> carZ - respawnAhead * METRE
                        - randScale(g2, respawnSpread * METRE),
                  speed |-> trafficMinSpeed * KMH
                            + randScale(g3, trafficSpeedSpread * KMH)],
        rng |-> g3]

\* mutant: a respawn pushes a new car instead of relocating the old one
trafficStep_push(st, i, spd, carZ, dt) ==
    LET moved == moveAgent(st.traffic[i], spd, dt)
    IN IF needsRespawn(moved, carZ)
       THEN LET r == respawnAgent(moved, carZ, st.rng)
            IN [traffic |-> Append([st.traffic EXCEPT ![i] = moved], r.mesh),
                rng |-> r.rng,
                respawned |-> st.respawned \cup {i}]
       ELSE [st EXCEPT !.traffic[i] = moved]

\* the body of `for (const t of traffic)` for the agent at index i
trafficStep(st, i, spd, carZ, dt) ==
    LET moved == moveAgent(st.traffic[i], spd, dt)
    IN IF needsRespawn(moved, carZ)
       THEN LET r == respawnAgent(moved, carZ, st.rng)
            IN [traffic |-> [st.traffic EXCEPT ![i] = r.mesh],
                rng |-> r.rng,
                respawned |-> st.respawned \cup {i}]
       ELSE [st EXCEPT !.traffic[i] = moved]

RECURSIVE trafficLoop(_, _, _, _, _)
trafficLoop(st, i, spd, carZ, dt) ==
    IF i > Len(st.traffic) THEN st
    ELSE trafficLoop(trafficStep(st, i, spd, carZ, dt), i + 1, spd, carZ, dt)

\* mutant: both keys held switch both indicators on (a hazard toggle)
newSignals_hazard(l, r, k) ==
    LET s1 == IF k["z"] THEN [left |-> TRUE, right |-> FALSE]
              ELSE [left |-> l, right |-> r]
        s2 == IF k["x"] THEN [left |-> FALSE, right |-> TRUE] ELSE s1
    IN IF k["z"] /\ k["x"] THEN [left |-> TRUE, right |-> TRUE] ELSE s2

\* mutant: the indicators follow the keys instead of latching
newSignals_momentary(l, r, k) ==
    [left |-> k["z"] /\ ~k["x"], right |-> k["x"] /\ ~k["z"]]

\* mutant: the 'z' branch does not clear rightSignal
newSignals_keepRight(l, r, k) ==
    LET s1 == IF k["z"] THEN [left |-> TRUE, right |-> r]
              ELSE [left |-> l, right |-> r]
        s2 == IF k["x"] THEN [left |-> FALSE, right |-> TRUE] ELSE s1
    IN IF k["z"] /\ k["x"] THEN [left |-> FALSE, right |-> FALSE] ELSE s2

\* mutant: the third `if` (both keys held) forgotten
newSignals_noCancel(l, r, k) ==
    LET s1 == IF k["z"] THEN [left |-> TRUE, right |-> FALSE]
              ELSE [left |-> l, right |-> r]
    IN IF k["x"] THEN [left |-> FALSE, right |-> TRUE] ELSE s1

\* the three `if`s on keys z and x, in the source's order
newSignals(l, r, k) ==
    LET s1 == IF k["z"] THEN [left |-> TRUE, right |-> FALSE]
              ELSE [left |-> l, right |-> r]
        s2 == IF k["x"] THEN [left |-> FALSE, right |-> TRUE] ELSE s1
    IN IF k["z"] /\ k["x"] THEN [left |-> FALSE, right |-> FALSE] ELSE s2

\* mutant: the blink flips but the timer is not reset
newBlink_noReset(timer, blink, dt) ==
    IF timer + dt > blinkPeriod
    THEN [timer |-> timer + dt, blink |-> ~blink]
    ELSE [timer |-> timer + dt, blink |-> blink]

\* signalTimer += dt; if (signalTimer > 0.5) { signalTimer = 0; flip }
newBlink(timer, blink, dt) ==
    IF timer + dt > blinkPeriod
    THEN [timer |-> 0, blink |-> ~blink]
    ELSE [timer |-> timer + dt, blink |-> blink]

\* mutant: the HUD text ignores the blink phase
signalDisplay_noBlink(l, r, b) ==
    IF l /\ r THEN "Hazard"
    ELSE IF l THEN "Left"
    ELSE IF r THEN "Right"
    ELSE "Off"

\* the HUD's if / else if chain
signalDisplay(l, r, b) ==
    IF l /\ r /\ b THEN "Hazard"
    ELSE IF l /\ b THEN "Left"
    ELSE IF r /\ b THEN "Right"
    ELSE "Off"

\* Number.prototype.toFixed(0) of v / unit: to the nearest integer
toFixed0(v, unit) == TDiv(2 * Abs(v) + unit, 2 * unit) * (IF v < 0 THEN -1 ELSE 1)

\* ------------------------------------------------------------ the frame
noKeys == [n \in KeyNames |-> FALSE]

snapshot ==
    [speed |-> speed, rpm |-> rpm, steeringInput |-> steeringInput,
     steeringAngle |-> steeringAngle, leftSignal |-> leftSignal,
     rightSignal |-> rightSignal, signalBlink |-> signalBlink,
     signalTimer |-> signalTimer, carPos |-> carPos, carRotY |-> carRotY,
     traffic |-> traffic]

\* everything update reads and writes, as one record
current ==
    [speed |-> speed, rpm |-> rpm, gear |-> gear,
     steeringInput |-> steeringInput, steeringAngle |-> steeringAngle,
     leftSignal |-> leftSignal, rightSignal |-> rightSignal,
     signalBlink |-> signalBlink, signalTimer |-> signalTimer,
     carPos |-> carPos, carRotY |-> carRotY, traffic |-> traffic,
     rng |-> rng, scene |-> scene, signalText |-> signalText]

\* mutant: the car lifts off when an agent is less than 40 m ahead of it
vehicleStep_brakesForTraffic(s, k, dt) ==
    LET near == \E i \in 1 .. Len(s.traffic) :
                    /\ s.traffic[i].z <= s.carPos.z
                    /\ s.traffic[i].z > s.carPos.z - 40 * METRE
        spd == IF near THEN newSpeed(s.speed, noKeys, dt)
                       ELSE newSpeed(s.speed, k, dt)
        si == newSteeringInput(s.steeringInput, k, dt)
        yd == yawDelta(si, spd, dt)
    IN [speed |-> spd,
        rpm |-> newRpm(spd, k),
        steeringInput |-> si,
        strength |-> steeringStrength(spd),
        yawDelta |-> yd,
        carPos |-> carMove(s.carPos, s.carRotY, spd, dt),
        carRotY |-> s.carRotY + yd,
        steeringAngle |-> newSteeringAngle(si)]

\* update, from the throttle to the steering wheel: the car
vehicleStep(s, k, dt) ==
    LET spd == newSpeed(s.speed, k, dt)
        si == newSteeringInput(s.steeringInput, k, dt)
        yd == yawDelta(si, spd, dt)
    IN [speed |-> spd,
        rpm |-> newRpm(spd, k),
        steeringInput |-> si,
        strength |-> steeringStrength(spd),
        yawDelta |-> yd,
        carPos |-> carMove(s.carPos, s.carRotY, spd, dt),
        carRotY |-> s.carRotY + yd,
        steeringAngle |-> newSteeringAngle(si)]

\* mutant: the traffic loop reading the speed and the car z the tick began with
trafficInputs_stale(s, v) == [speed |-> s.speed, carZ |-> s.carPos.z]

\* what the traffic loop reads of the car: `speed`, assigned earlier in the
\* same call, and carZ = car.position.z, taken after the car has moved
trafficInputs(s, v) == [speed |-> v.speed, carZ |-> v.carPos.z]

\* mutant: the blink timer restarted when a signal is switched on
signalStep_restart(s, k, dt) ==
    LET sg == newSignals(s.leftSignal, s.rightSignal, k)
        on == (sg.left /\ ~s.leftSignal) \/ (sg.right /\ ~s.rightSignal)
        bl == newBlink(IF on THEN 0 ELSE s.signalTimer,
                       IF on THEN TRUE ELSE s.signalBlink, dt)
    IN [leftSignal |-> sg.left, rightSignal |-> sg.right,
        signalTimer |-> bl.timer, signalBlink |-> bl.blink]

\* update, the signals and the blink timer
signalStep(s, k, dt) ==
    LET sg == newSignals(s.leftSignal, s.rightSignal, k)
        bl == newBlink(s.signalTimer, s.signalBlink, dt)
    IN [leftSignal |-> sg.left, rightSignal |-> sg.right,
        signalTimer |-> bl.timer, signalBlink |-> bl.blink]

\* function update(dt) on the state s with the key map k: the state it
\* leaves, and what the call computed on the way
updated(s, k, dt) ==
    LET v == vehicleStep(s, k, dt)
        ti == trafficInputs(s, v)
        tl == trafficLoop([traffic |-> s.traffic, rng |-> s.rng, respawned |-> {}],
                          1, ti.speed, ti.carZ, dt)
        sg == signalStep(s, k, dt)
    IN [speed |-> v.speed,
        rpm |-> v.rpm,
        gear |-> s.gear,
        steeringInput |-> v.steeringInput,
        steeringAngle |-> v.steeringAngle,
        carPos |-> v.carPos,
        carRotY |-> v.carRotY,
        traffic |-> tl.traffic,
        rng |-> tl.rng,
        leftSignal |-> sg.leftSignal,
        rightSignal |-> sg.rightSignal,
        signalTimer |-> sg.signalTimer,
        signalBlink |-> sg.signalBlink,
        scene |-> [roadZ |-> v.carPos.z - 50 * METRE,
                   laneLinesZ |-> v.carPos.z - 50 * METRE,
                   wheelRotY |-> v.steeringAngle + PI,
                   leftLamp |-> sg.leftSignal /\ sg.signalBlink,
                   rightLamp |-> sg.rightSignal /\ sg.signalBlink,
                   speedText |-> ToString(toFixed0(v.speed, KMH)),
                   rpmText |-> ToString(toFixed0(v.rpm, KMH)),
                   gearText |-> s.gear],
        signalText |-> signalDisplay(sg.leftSignal, sg.rightSignal, sg.signalBlink),
        strength |-> v.strength,
        yawDelta |-> v.yawDelta,
        carZ |-> v.carPos.z,
        respawned |-> tl.respawned]

\* function update(dt), as one step
update(dt) ==
    \E u \in {updated(current, keys, dt)} :
    LET steer == keys["a"] \/ keys["d"]
    IN /\ speed' = u.speed
       /\ rpm' = u.rpm
       /\ steeringInput' = u.steeringInput
       /\ carPos' = u.carPos
       /\ carRotY' = u.carRotY
       /\ steeringAngle' = u.steeringAngle
       /\ traffic' = u.traffic
       /\ rng' = u.rng
       /\ leftSignal' = u.leftSignal
       /\ rightSignal' = u.rightSignal
       /\ signalTimer' = u.signalTimer
       /\ signalBlink' = u.signalBlink
       /\ scene' = u.scene
       /\ signalText' = u.signalText
       /\ frame' = [dt |-> dt, keys |-> keys, strength |-> u.strength,
                    yawDelta |-> u.yawDelta, carZ |-> u.carZ,
                    respawned |-> u.respawned,
                    \* the ticks in a row, this one included, that read
                    \* neither 'a' nor 'd', and steeringInput before them
                    calm |-> IF steer THEN 0 ELSE frame.calm + 1,
                    calmFrom |-> IF steer THEN u.steeringInput ELSE frame.calmFrom]
       /\ pre' = snapshot
       /\ ticks' = ticks + 1
       /\ UNCHANGED <<keys, gear, events>>

\* function animate(now): elapsed is now - lastTime, in 1/SEC s
animate(elapsed, maxTicks) ==
    /\ ticks < maxTicks
    /\ update(Min(maxDt, elapsed))
    /\ UNCHANGED twin

\* mutant: the keydown listener itself switches the left indicator on
keydown_latch(c, maxEvents, window) ==
    /\ events < maxEvents
    /\ ticks < window
    /\ keys' = [keys EXCEPT ![toLowerCase(c)] = TRUE]
    /\ events' = events + 1
    /\ leftSignal' = (toLowerCase(c) = "z" \/ leftSignal)
    /\ UNCHANGED <<speed, rpm, gear, steeringInput, steeringAngle,
                   rightSignal, signalBlink, signalTimer, carPos, carRotY,
                   traffic, rng, scene, signalText, ticks, frame, pre, twin>>

\* the keydown and keyup listeners
keydown(c, maxEvents, window) ==
    /\ events < maxEvents
    /\ ticks < window
    /\ keys' = [keys EXCEPT ![toLowerCase(c)] = TRUE]
    /\ events' = events + 1
    /\ UNCHANGED <<speed, rpm, gear, steeringInput, steeringAngle, leftSignal,
                   rightSignal, signalBlink, signalTimer, carPos, carRotY,
                   traffic, rng, scene, signalText, ticks, frame, pre, twin>>

keyup(c, maxEvents, window) ==
    /\ events < maxEvents
    /\ ticks < window
    /\ keys' = [keys EXCEPT ![toLowerCase(c)] = FALSE]
    /\ events' = events + 1
    /\ UNCHANGED <<speed, rpm, gear, steeringInput, steeringAngle, leftSignal,
                   rightSignal, signalBlink, signalTimer, carPos, carRotY,
                   traffic, rng, scene, signalText, ticks, frame, pre, twin>>

\* the second run: the state that update leaves in it
simOf(u) == [f \in DOMAIN current |-> u[f]]

\* animate(now) in both runs, with the same elapsed time
animatePair(elapsed, maxTicks) ==
    /\ ticks < maxTicks
    /\ update(Min(maxDt, elapsed))
    /\ \E u \in {updated(twin.sim, twin.keys, Min(maxDt, elapsed))} :
           twin' = [twin EXCEPT !.sim = simOf(u),
                               !.respawned = @ \cup u.respawned,
                               !.synced = twin.synced /\ twin.keys = keys]

\* the keydown and keyup listeners of the second run
keydownTwin(c, maxEvents, window) ==
    /\ twin.events < maxEvents
    /\ ticks < window
    /\ twin' = [twin EXCEPT !.keys = [@ EXCEPT ![toLowerCase(c)] = TRUE],
                            !.events = @ + 1]
    /\ UNCHANGED <<keys, speed, rpm, gear, steeringInput, steeringAngle,
                   leftSignal, rightSignal, signalBlink, signalTimer, carPos,
                   carRotY, traffic, rng, scene, signalText, ticks, events,
                   frame, pre>>

keyupTwin(c, maxEvents, window) ==
    /\ twin.events < maxEvents
    /\ ticks < window
    /\ twin' = [twin EXCEPT !.keys = [@ EXCEPT ![toLowerCase(c)] = FALSE],
                            !.events = @ + 1]
    /\ UNCHANGED <<keys, speed, rpm, gear, steeringInput, steeringAngle,
                   leftSignal, rightSignal, signalBlink, signalTimer, carPos,
                   carRotY, traffic, rng, scene, signalText, ticks, events,
                   frame, pre>>

\* the same key event delivered to both runs
keydownBoth(c, maxEvents, window) ==
    /\ events < maxEvents
    /\ ticks < window
    /\ keys' = [keys EXCEPT ![toLowerCase(c)] = TRUE]
    /\ events' = events + 1
    /\ twin' = [twin EXCEPT !.keys = [@ EXCEPT ![toLowerCase(c)] = TRUE],
                            !.events = @ + 1]
    /\ UNCHANGED <<speed, rpm, gear, steeringInput, steeringAngle, leftSignal,
                   rightSignal, signalBlink, signalTimer, carPos, carRotY,
                   traffic, rng, scene, signalText, ticks, frame, pre>>

keyupBoth(c, maxEvents, window) ==
    /\ events < maxEvents
    /\ ticks < window
    /\ keys' = [keys EXCEPT ![toLowerCase(c)] = FALSE]
    /\ events' = events + 1
    /\ twin' = [twin EXCEPT !.keys = [@ EXCEPT ![toLowerCase(c)] = FALSE],
                            !.events = @ + 1]
    /\ UNCHANGED <<speed, rpm, gear, steeringInput, steeringAngle, leftSignal,
                   rightSignal, signalBlink, signalTimer, carPos, carRotY,
                   traffic, rng, scene, signalText, ticks, frame, pre>>

\* the state when the module has been evaluated with the generator seeded
\* by seed: ten cars spawned, nothing else touched
loaded(seed) ==
    LET st == spawnAll(0, [traffic |-> <<>>, rng |-> seed])
    IN [speed |-> 0, rpm |-> rpmInit * KMH, gear |-> "D",
        steeringInput |-> 0, steeringAngle |-> 0,
        leftSignal |-> FALSE, rightSignal |-> FALSE,
        signalBlink |-> FALSE, signalTimer |-> 0,
        carPos |-> [x |-> 0, z |-> 0], carRotY |-> 0,
        traffic |-> st.traffic, rng |-> st.rng,
        scene |-> [roadZ |-> 0, laneLinesZ |-> 0, wheelRotY |-> 0,
                   leftLamp |-> FALSE, rightLamp |-> FALSE,
                   speedText |-> "", rpmText |-> "", gearText |-> ""],
        signalText |-> ""]

\* a second run of the program, in a page of its own, used to compare two
\* runs: its key map, its state, and whether every update so far read the
\* same key map in both runs
twinOf(seed, same) ==
    [keys |-> noKeys, events |-> 0, sim |-> loaded(seed), respawned |-> {},
     synced |-> TRUE, sameSeed |-> same]

InitFrom(seed, tw) ==
    LET s0 == loaded(seed)
    IN /\ traffic = s0.traffic
       /\ rng = s0.rng
       /\ keys = noKeys
       /\ speed = s0.speed
       /\ rpm = s0.rpm
       /\ gear = s0.gear
       /\ steeringInput = s0.steeringInput
       /\ steeringAngle = s0.steeringAngle
       /\ leftSignal = s0.leftSignal
       /\ rightSignal = s0.rightSignal
       /\ signalBlink = s0.signalBlink
       /\ signalTimer = s0.signalTimer
       /\ carPos = s0.carPos
       /\ carRotY = s0.carRotY
       /\ scene = s0.scene
       /\ signalText = s0.signalText
       /\ ticks = 0
       /\ events = 0
       /\ frame = [dt |-> 0, keys |-> noKeys, strength |-> 0, yawDelta |-> 0,
                   carZ |-> 0, respawned |-> {}, calm |-> 0, calmFrom |-> 0]
       /\ pre = [speed |-> 0, rpm |-> rpmInit * KMH, steeringInput |-> 0,
                 steeringAngle |-> 0, leftSignal |-> FALSE,
                 rightSignal |-> FALSE, signalBlink |-> FALSE,
                 signalTimer |-> 0, carPos |-> [x |-> 0, z |-> 0],
                 carRotY |-> 0, traffic |-> s0.traffic]
       /\ twin = tw

\* one run: no key seen, no frame run (the second run is left idle)
Init == \E seed \in 0 .. NumSeeds - 1 : InitFrom(seed, twinOf(seed, TRUE))

\* ------------------------------------------------------- specifications
\* A specification is the three handlers under an environment: the keys the
\* user touches, the elapsed times the browser hands to animate, how many
\* frames and key events the run has, and the number of frames during which
\* key events still arrive (after that the keys are held as they are).

\* Spec: every key, in either case; frames of 0 s, 1/60 s, 0.05 s and a
\* stalled one of 0.1 s (clamped); a short run.
MaxTicks == 2
MaxEvents == 2
AllKeys == {"w", "s", "a", "d", "z", "x", "W", "Z"}
Elapsed == {0, 10, 30, 60}

Next ==
    \/ \E c \in AllKeys : keydown(c, MaxEvents, MaxTicks + 1)
    \/ \E c \in AllKeys : keyup(c, MaxEvents, MaxTicks + 1)
    \/ \E e \in Elapsed : animate(e, MaxTicks)

Spec == Init /\ [][Next]_vars

\* SpecSignal: the signal keys only, frames of 0 s and 1/24 s (twelve of
\* which sum to 0.5 s exactly, in doubles as well), long enough for the
\* blink timer to pass its period.
SignalTicks == 14
SignalEvents == 3
SignalKeys == {"z", "x", "Z", "X"}
SignalElapsed == {0, 25}

NextSignal ==
    \/ \E c \in SignalKeys : keydown(c, SignalEvents, SignalTicks + 1)
    \/ \E c \in SignalKeys : keyup(c, SignalEvents, SignalTicks + 1)
    \/ \E e \in SignalElapsed : animate(e, SignalTicks)

SpecSignal == Init /\ [][NextSignal]_vars

\* SpecDrive: throttle, brake and steering keys pressed or released during
\* the first frames and then held, frames of 0.05 s, long enough to reach
\* the speed cap and for traffic to fall behind the trailing margin.
DriveTicks == 100
DriveEvents == 3
DriveWindow == 2
DriveKeys == {"w", "s", "a", "W"}
DriveElapsed == {30, 60}

NextDrive ==
    \/ \E c \in DriveKeys : keydown(c, DriveEvents, DriveWindow)
    \/ \E c \in DriveKeys : keyup(c, DriveEvents, DriveWindow)
    \/ \E e \in DriveElapsed : animate(e, DriveTicks)

SpecDrive == Init /\ [][NextDrive]_vars

\* SpecSteer: the steering keys only, frames of 0 s, 1/60 s and 0.05 s.
SteerTicks == 5
SteerEvents == 2
SteerKeys == {"a", "d"}
SteerElapsed == {0, 10, 30}

NextSteer ==
    \/ \E c \in SteerKeys : keydown(c, SteerEvents, SteerTicks + 1)
    \/ \E c \in SteerKeys : keyup(c, SteerEvents, SteerTicks + 1)
    \/ \E e \in SteerElapsed : animate(e, SteerTicks)

SpecSteer == Init /\ [][NextSteer]_vars

\* Two runs of the program side by side, fed the same elapsed times.
\* InitPair: both generators seeded alike. InitApart: seeded differently.
InitPair == \E seed \in 0 .. NumSeeds - 1 : InitFrom(seed, twinOf(seed, TRUE))

InitApart ==
    \E seed \in 0 .. NumSeeds - 1 :
        \E other \in (0 .. NumSeeds - 1) \ {seed} :
            InitFrom(seed, twinOf(other, FALSE))

\* SpecBlink: each run has its own signal keys pressed and released during
\* the first frames; frames of 0 s and 0.05 s, enough of them for the blink
\* to toggle.
BlinkTicks == 11
BlinkEvents == 2
BlinkWindow == 2
BlinkKeys == {"z", "x"}
BlinkElapsed == {0, 30}

NextBlink ==
    \/ \E c \in BlinkKeys : keydown(c, BlinkEvents, BlinkWindow)
    \/ \E c \in BlinkKeys : keyup(c, BlinkEvents, BlinkWindow)
    \/ \E c \in BlinkKeys : keydownTwin(c, BlinkEvents, BlinkWindow)
    \/ \E c \in BlinkKeys : keyupTwin(c, BlinkEvents, BlinkWindow)
    \/ \E e \in BlinkElapsed : animatePair(e, BlinkTicks)

SpecBlink == InitPair /\ [][NextBlink]_vars

\* SpecApart: two runs whose generators are seeded differently, given the
\* same key events (during the first frames) and the same frames of 0.05 s,
\* long enough for agents to be respawned in both.
ApartTicks == 80
ApartEvents == 4
ApartWindow == 2
ApartKeys == {"w", "a", "z", "W"}
ApartElapsed == {30}

NextApart ==
    \/ \E c \in ApartKeys : keydownBoth(c, ApartEvents, ApartWindow)
    \/ \E c \in ApartKeys : keyupBoth(c, ApartEvents, ApartWindow)
    \/ \E e \in ApartElapsed : animatePair(e, ApartTicks)

SpecApart == InitApart /\ [][NextApart]_vars

\* SpecThrottle: the throttle key pressed (or not) before the first frame
\* and held, frames of 1/60 s, for one second.
ThrottleTicks == 60
ThrottleEvents == 2
ThrottleWindow == 1
ThrottleKeys == {"w", "W"}
ThrottleElapsed == {10}

NextThrottle ==
    \/ \E c \in ThrottleKeys : keydown(c, ThrottleEvents, ThrottleWindow)
    \/ \E c \in ThrottleKeys : keyup(c, ThrottleEvents, ThrottleWindow)
    \/ \E e \in ThrottleElapsed : animate(e, ThrottleTicks)

SpecThrottle == Init /\ [][NextThrottle]_vars

\* SpecInput: two runs seeded alike and given the same frames; the first
\* receives its keys with Caps Lock on, the second without, each at any
\* moment between frames.
InputTicks == 2
InputEvents == 3
InputEventsTwin == 1
InputKeys == {"W", "Z"}
InputKeysTwin == {"w", "z"}
InputElapsed == {0, 30}

NextInput ==
    \/ \E c \in InputKeys : keydown(c, InputEvents, InputTicks + 1)
    \/ \E c \in InputKeys : keyup(c, InputEvents, InputTicks + 1)
    \/ \E c \in InputKeysTwin : keydownTwin(c, InputEventsTwin, InputTicks + 1)
    \/ \E c \in InputKeysTwin : keyupTwin(c, InputEventsTwin, InputTicks + 1)
    \/ \E e \in InputElapsed : animatePair(e, InputTicks)

SpecInput == InitPair /\ [][NextInput]_vars

\* ------------------------------------------------------------------ claims
afterTick == ticks > 0

\* the agents' z and cruise speed, which are the traffic's numeric state
trafficNumbers(tr) == [i \in 1 .. Len(tr) |-> <<tr[i].x, tr[i].z, tr[i].speed>>]

\* C1 as stated: update(0) leaves all numeric simulation state unchanged
\* (speed, rpm, steeringInput, steeringAngle, yaw, car position, every
\* traffic agent's position and cruise speed, signalTimer).
C1_ZeroTickNoOp ==
    (afterTick /\ frame.dt = 0) =>
        /\ speed = pre.speed
        /\ rpm = pre.rpm
        /\ steeringInput = pre.steeringInput
        /\ steeringAngle = pre.steeringAngle
        /\ carRotY = pre.carRotY
        /\ carPos = pre.carPos
        /\ trafficNumbers(traffic) = trafficNumbers(pre.traffic)
        /\ signalTimer = pre.signalTimer

\* C1 amended: update(0) leaves speed, yaw, the car position, every traffic
\* agent's position and cruise speed and signalTimer unchanged; it still
\* multiplies steeringInput by 0.9, sets steeringAngle to 0.7 times the new
\* steeringInput, and recomputes rpm as min(7500, 900 + 40 * speed + 500 if
\* 'w' is held).
C1_ZeroTick ==
    (afterTick /\ frame.dt = 0) =>
        /\ speed = pre.speed
        /\ carRotY = pre.carRotY
        /\ carPos = pre.carPos
        /\ trafficNumbers(traffic) = trafficNumbers(pre.traffic)
        /\ signalTimer = pre.signalTimer
        /\ 100 * Abs(steeringInput) <= 90 * Abs(pre.steeringInput)
        /\ 100 * Abs(steeringInput) > 90 * Abs(pre.steeringInput) - 100
        /\ steeringInput * pre.steeringInput >= 0
        /\ 10 * steeringAngle = 7 * MILLI * steeringInput
        /\ rpm = Min(7500 * KMH,
                     900 * KMH + 40 * speed + (IF frame.keys["w"] THEN 500 * KMH ELSE 0))

\* a frame of dt = 0 run while the car moves and the wheel is turned
C1_Witness ==
    /\ afterTick
    /\ frame.dt = 0
    /\ pre.speed > 0
    /\ pre.steeringInput # 0
    /\ steeringInput # pre.steeringInput

\* the interpolation C2 describes, in 1/MILLI, for a speed in 1/KMH km/h
C2_Expected(spd) ==
    IF spd >= 200 * KMH THEN 400
    ELSE 1800 - TDiv(1400 * spd, 200 * KMH)

Sign(v) == IF v > 0 THEN 1 ELSE IF v < 0 THEN -1 ELSE 0

\* C2: the steering strength of a tick is the linear interpolation from 1.8
\* at 0 km/h to 0.4 at 200 km/h and 0.4 from 200 km/h up to the cap (here to
\* within the fixed-point rounding), so it lies in [0.4, 1.8] and the tick's
\* yaw change has the sign of steeringInput.
C2_SteeringStrength ==
    afterTick =>
        /\ Abs(frame.strength - C2_Expected(speed)) <= 2
        /\ frame.strength >= 400 - 2
        /\ frame.strength <= 1800
        /\ (frame.dt > 0 => Sign(frame.yawDelta) = Sign(steeringInput))

\* C3: leftSignal and rightSignal are never both true, initially and after
\* every tick.
C3_SignalsExclusive == ~(leftSignal /\ rightSignal)

\* a tick that switches the indicator from right to left
C3_Witness == afterTick /\ pre.rightSignal /\ leftSignal /\ frame.keys["z"]

\* C4 as stated: after every tick signalTimer is in [0, 0.5), never equal to
\* or above the blink period.
C4_TimerBelowPeriod == signalTimer >= 0 /\ signalTimer < blinkPeriod

\* C4 amended: after every tick signalTimer is in the closed interval
\* [0, 0.5]; it is reset only once it exceeds 0.5 s, so a tick can end with it
\* equal to 0.5 s.
C4_TimerRange == signalTimer >= 0 /\ signalTimer <= blinkPeriod

\* a tick ends with the timer at the period exactly
C4_Witness == afterTick /\ frame.dt > 0 /\ signalTimer = blinkPeriod

\* C5: speed is in [0, 260] km/h initially and after every tick.
C5_SpeedBounds == speed >= 0 /\ speed <= 260 * KMH

\* the cap is reached with the throttle held
C5_Witness == afterTick /\ frame.keys["w"] /\ speed = 260 * KMH

\* C6: at every tick rpm is in [0, 7500] and equals
\* clamp(900 + speed * 40 + (throttle ? 500 : 0), 0, 7500) for the tick's
\* updated speed and the 'w' state the tick read.
C6_Raw == 900 * KMH + 40 * speed + (IF frame.keys["w"] THEN 500 * KMH ELSE 0)

C6_Rpm ==
    /\ rpm >= 0
    /\ rpm <= 7500 * KMH
    /\ afterTick => rpm = Max(0, Min(7500 * KMH, C6_Raw))

\* a tick in which the clamp cuts the rpm
C6_Witness == afterTick /\ frame.keys["w"] /\ C6_Raw > 7500 * KMH /\ rpm = 7500 * KMH

\* C7: an agent that is beyond egoZ + 50 when a tick begins, or that the
\* tick's respawn test finds beyond carZ + 50 once it has moved, has after
\* the tick z strictly less than the car's z and a cruise speed in [60, 140].
C7_Respawn ==
    afterTick =>
        \A i \in 1 .. Len(traffic) :
            (\/ i \in frame.respawned
             \/ (i <= Len(pre.traffic)
                 /\ pre.traffic[i].z > pre.carPos.z + 50 * METRE))
            => /\ traffic[i].z < carPos.z
               /\ traffic[i].speed >= 60 * KMH
               /\ traffic[i].speed <= 140 * KMH

\* a tick has respawned an agent that had fallen behind the margin
C7_Witness ==
    /\ afterTick
    /\ \E i \in frame.respawned :
           pre.traffic[i].z > carPos.z /\ traffic[i].z < carPos.z

\* C8: the pool holds 10 agents from startup on, across ticks, key events
\* and respawns.
C8_PoolSize == Len(traffic) = 10 /\ Len(pre.traffic) = 10

\* a respawn has happened and the pool is as large as before
C8_Witness == afterTick /\ Cardinality(frame.respawned) >= 1 /\ Len(traffic) = 10

\* C9: the HUD signal text a tick writes follows the table over
\* (leftSignal, rightSignal, signalBlink).
C9_SignalTable ==
    afterTick =>
        /\ (leftSignal /\ rightSignal /\ signalBlink) => signalText = "Hazard"
        /\ (leftSignal /\ ~rightSignal /\ signalBlink) => signalText = "Left"
        /\ (~leftSignal /\ rightSignal /\ signalBlink) => signalText = "Right"
        /\ ~signalBlink => signalText = "Off"
        /\ (~leftSignal /\ ~rightSignal) => signalText = "Off"

\* the left indicator is shown lit
C9_Witness == afterTick /\ leftSignal /\ signalBlink /\ signalText = "Left"

\* C10: a tick that reads both 'z' and 'x' held leaves leftSignal and
\* rightSignal false, whatever they were.
C10_BothKeysCancel ==
    (afterTick /\ frame.keys["z"] /\ frame.keys["x"]) =>
        (~leftSignal /\ ~rightSignal)

\* both keys held in a tick that began with the left indicator on
C10_Witness ==
    /\ afterTick
    /\ frame.keys["z"]
    /\ frame.keys["x"]
    /\ pre.leftSignal
    /\ ~leftSignal
    /\ ~rightSignal

\* C11: over N ticks in a row that read neither 'a' nor 'd', whatever their
\* dt, |steeringInput| ends at most 0.9^N times what it was before them
\* (N up to CalmMax, so that 10^N stays in range).
CalmMax == 6

RECURSIVE Pow(_, _)
Pow(b, n) == IF n = 0 THEN 1 ELSE b * Pow(b, n - 1)

C11_SteeringDecay ==
    (afterTick /\ frame.calm >= 1 /\ frame.calm <= CalmMax)
        => Pow(10, frame.calm) * Abs(steeringInput)
               <= Pow(steerDecayPct \div 10, frame.calm) * Abs(frame.calmFrom)

\* three calm ticks, one of them of 0 s, after the wheel was turned
C11_Witness ==
    /\ afterTick
    /\ frame.calm >= 3
    /\ frame.dt = 0
    /\ frame.calmFrom # 0
    /\ steeringInput # 0

\* C12: the blink timer runs free: two runs given the same sequence of dt
\* have the same signalTimer and signalBlink at every tick, whatever keys
\* each run pressed and whether its signals are on.
C12_BlinkFreeRunning ==
    /\ signalTimer = twin.sim.signalTimer
    /\ signalBlink = twin.sim.signalBlink

\* the blink has toggled, in a pair of runs whose signals differ and were
\* switched on at different ticks
C12_Witness ==
    /\ signalBlink
    /\ twin.sim.signalBlink
    /\ leftSignal
    /\ ~twin.sim.leftSignal
    /\ twin.sim.rightSignal
    /\ ~twin.synced

\* C13: two runs given the same dt sequence and the same key events, whose
\* random draws for traffic differ, have the same speed, rpm, steeringInput,
\* steeringAngle, yaw, leftSignal, rightSignal, signalBlink and signalTimer
\* after every tick.
C13_VehicleDeterministic ==
    /\ speed = twin.sim.speed
    /\ rpm = twin.sim.rpm
    /\ steeringInput = twin.sim.steeringInput
    /\ steeringAngle = twin.sim.steeringAngle
    /\ carRotY = twin.sim.carRotY
    /\ leftSignal = twin.sim.leftSignal
    /\ rightSignal = twin.sim.rightSignal
    /\ signalBlink = twin.sim.signalBlink
    /\ signalTimer = twin.sim.signalTimer

\* both runs have respawned agents (the second run at this tick or before),
\* with different draws, while the car was driven, steered and signalling
C13_Witness ==
    /\ ~twin.sameSeed
    /\ frame.respawned # {}
    /\ twin.respawned # {}
    /\ trafficNumbers(traffic) # trafficNumbers(twin.sim.traffic)
    /\ rng # twin.sim.rng
    /\ speed > 0
    /\ carRotY # 0
    /\ leftSignal

\* C14: from speed 0 with only the throttle held, over ticks of 1/60 s the
\* speed after each tick is clamp((s + 120*dt) * (1 - 0.35*dt), 0, 260) of
\* the speed s before it (to the resolution of the model, 1/KMH km/h), is
\* strictly above s, and is below both 120/0.35 km/h and the 260 km/h cap.
onlyThrottle == [noKeys EXCEPT !["w"] = TRUE]

C14_Recurrence(s, dt) ==
    Max(0, Min(maxSpeed * KMH * 100 * SEC,
               (s + TDiv(accel * KMH * dt, SEC)) * (100 * SEC - dragPct * dt)))

C14_ThrottleScenario ==
    (afterTick /\ frame.keys = onlyThrottle /\ frame.dt * 60 = SEC)
        => /\ Abs(speed * 100 * SEC - C14_Recurrence(pre.speed, frame.dt)) < 100 * SEC
           /\ speed > pre.speed
           /\ speed < maxSpeed * KMH
           /\ speed * dragPct < accel * 100 * KMH

\* the sixtieth tick of the scenario
C14_Witness ==
    /\ ticks = 60
    /\ frame.keys = onlyThrottle
    /\ frame.dt * 60 = SEC
    /\ speed > 100 * KMH

\* C15: in every tick each agent's dz is computed from the speed the same
\* tick has already updated (never the speed the tick began with), and the
\* respawn test compares the moved agent with the car z the same tick has
\* already advanced.
C15_Moved(i) ==
    pre.traffic[i].z
    + TDiv((pre.traffic[i].speed - speed) * frame.dt * ((10 * METRE) \div (KMH * SEC)), 36)

C15_TickOrdering ==
    afterTick =>
        \A i \in 1 .. Len(traffic) :
            /\ i \notin frame.respawned => traffic[i].z = C15_Moved(i)
            /\ i \in frame.respawned <=> C15_Moved(i) > carPos.z + 50 * METRE

\* a tick that changed the speed and moved the car, in which an agent was
\* respawned that the car z of the tick's beginning would have let pass
C15_Witness ==
    /\ afterTick
    /\ speed # pre.speed
    /\ \E i \in frame.respawned :
           /\ C15_Moved(i) > carPos.z + 50 * METRE
           /\ C15_Moved(i) <= pre.carPos.z + 50 * METRE

\* C16: the signal text is never "Hazard", and once a tick has written it
\* it is one of Off, Left, Right.
C16_NoHazard ==
    /\ signalText # "Hazard"
    /\ afterTick => signalText \in {"Off", "Left", "Right"}

\* both keys were held in the lit phase of the blink and the text is Off
C16_Witness ==
    /\ afterTick
    /\ frame.keys["z"]
    /\ frame.keys["x"]
    /\ signalBlink
    /\ pre.leftSignal
    /\ signalText = "Off"

\* C17: a tick that reads neither 'z' nor 'x' held leaves leftSignal and
\* rightSignal as they were, and a tick that takes an indicator from on to
\* both off is one that read both keys held.
C17_SignalsLatch ==
    afterTick =>
        /\ (~frame.keys["z"] /\ ~frame.keys["x"])
               => (leftSignal = pre.leftSignal /\ rightSignal = pre.rightSignal)
        /\ ((pre.leftSignal \/ pre.rightSignal) /\ ~leftSignal /\ ~rightSignal)
               => (frame.keys["z"] /\ frame.keys["x"])

\* the left indicator, switched on by a press, is still on after a tick
\* that followed the release of the key
C17_Witness ==
    /\ afterTick
    /\ ~frame.keys["z"]
    /\ ~frame.keys["x"]
    /\ pre.leftSignal
    /\ leftSignal
    /\ events >= 2

\* C18: in the initial state and after every tick every agent's z is at most
\* the car's z + 50, whatever the dt, the keys and the car's heading; and an
\* agent respawned in a tick ends the tick with z in
\* [car z - 300, car z - 150].
C18_TrailingMargin ==
    /\ \A i \in 1 .. Len(traffic) : traffic[i].z <= carPos.z + 50 * METRE
    /\ afterTick =>
           \A i \in frame.respawned :
               /\ traffic[i].z >= carPos.z - 300 * METRE
               /\ traffic[i].z <= carPos.z - 150 * METRE

\* a moving car that has turned, a tick that respawned one agent and left
\* another one behind the car
C18_Witness ==
    /\ afterTick
    /\ speed > 0
    /\ carRotY # 0
    /\ frame.respawned # {}
    /\ \E i \in 1 .. Len(traffic) : traffic[i].z > carPos.z

\* C19: a key event changes the key map, at the lower-cased key name only,
\* and no simulation variable; and a tick's result depends only on the key
\* map at that tick: two runs whose ticks have read the same key maps are
\* in the same state, whatever was pressed and released between ticks.
C19_KeyEventOnly ==
    /\ UNCHANGED <<speed, rpm, gear, steeringInput, steeringAngle, leftSignal,
                   rightSignal, signalBlink, signalTimer, carPos, carRotY,
                   traffic, rng, scene, signalText>>
    /\ \E c \in KeyNames : \A n \in KeyNames \ {c} : keys'[n] = keys[n]
    /\ DOMAIN keys' = KeyNames

C19_InputSampledAtTicks ==
    /\ []((twin.synced /\ twin.sameSeed) => simOf(current) = twin.sim)
    /\ [][events' # events => C19_KeyEventOnly]_vars

\* the first run, typing capitals, has pressed and released a key more than
\* the second; every tick read the same key map in both; the throttle is
\* held and the car moves
C19_Witness ==
    /\ twin.synced
    /\ twin.sameSeed
    /\ ticks >= 2
    /\ events >= twin.events + 2
    /\ keys["w"]
    /\ speed > 0
    /\ simOf(current) = twin.sim

\* C20: after every tick |steeringInput| <= 0.9, so +1 and -1 are never
\* seen after a tick, and |steeringAngle| <= 0.63 rad.
C20_NeverFullLock ==
    /\ 10 * Abs(steeringInput) <= 9 * MILLI
    /\ 100 * Abs(steeringAngle) <= 63 * MICRO

\* the steering key held until the clamp cuts: the bound is attained
C20_Witness ==
    /\ afterTick
    /\ frame.keys["a"]
    /\ pre.steeringInput + TDiv(steerRate * MILLI * frame.dt, SEC) > MILLI
    /\ 10 * steeringInput = 9 * MILLI
    /\ 100 * steeringAngle = 63 * MICRO

====
